---- MODULE Spec2Model ----
(***************************************************************************)
(* Model of src/example.py: the grid MDP (transition and reward model),   *)
(* policy iteration over (position, collected gold) states, and the       *)
(* per-turn agent_function.                                                *)
(*                                                                         *)
(* Units.  A position is <<column, row>>, 0-based, as in the source.      *)
(* A grid is a sequence of rows, each a sequence of one-character cells.  *)
(* Probabilities are integers in tenths (0.8 = 8, 0.1 = 1, 1.0 = 10).     *)
(* Rewards and values are integers in units of EPSILON/10 = 1e-7, so 1.0  *)
(* is One; every product is rounded down to that unit, which stands for   *)
(* the rounding of the source's double arithmetic.                        *)
(***************************************************************************)
EXTENDS Integers, Sequences, FiniteSets, TLC

VARIABLES grid, pc,
          position, action, next_position, possible_moves, mass, reward,
          gold_collected,
          policy, V, sweeps, iterations,
          history, free_skill_points, agility_skill, attempt,
          current_position, result

vars == <<grid, pc, position, action, next_position, possible_moves, mass,
          reward, gold_collected, policy, V, sweeps, iterations, history,
          free_skill_points, agility_skill, attempt, current_position, result>>

(***************************************************************************)
(* Constants of the program                                                *)
(***************************************************************************)
\* GAMMA = 0.95, in hundredths
GAMMA == 95
\* EPSILON = 1e-6, in value units of 1e-7
EPSILON == 10
\* the value 1.0 in value units
One == EPSILON * 100000
Actions == <<"NORTH", "SOUTH", "EAST", "WEST", "EXIT">>

ActionSet == {Actions[i] : i \in 1..Len(Actions)}

\* Python's None, where the other values are strings
None == "None"
\* a missing position, policy or value table
Missing == <<>>
\* a number that has not been set
Unset == 0 - 1

(***************************************************************************)
(* Bounds of the model                                                     *)
(***************************************************************************)
\* sweeps one evaluation phase may take before it is reported as not converged
MaxSweeps == 400
\* evaluation/improvement rounds one run of policy_iteration may take
MaxIterations == 8
\* policy_iteration on its own: number of states (from the front of the
\* state list) whose initial action is drawn freely; the remaining states
\* share one freely drawn action
MaxFreeStates == 2
\* the same for the policy_iteration that agent_function runs
MaxFreeAgent == 0
\* longest replayed history
MaxHistory == 2
\* largest agility skill (number of dice) of a request
MaxAgility == 3

(***************************************************************************)
(* Grid helpers                                                            *)
(***************************************************************************)
Rows(g) == Len(g)
Cols(g) == Len(g[1])

InGrid(pos, g) == /\ 0 <= pos[2] /\ pos[2] < Rows(g)
                  /\ 0 <= pos[1] /\ pos[1] < Cols(g)

\* grid[row][col]
Cell(g, pos) == g[pos[2] + 1][pos[1] + 1]

\* all coordinates in row-major order, the order of the source's nested loops
RowMajor(g) ==
  [i \in 1..(Rows(g) * Cols(g)) |-> <<(i - 1) % Cols(g), (i - 1) \div Cols(g)>>]

RECURSIVE SelectPos(_, _, _)
SelectPos(seq, g, cells) ==
  IF seq = <<>> THEN <<>>
  ELSE (IF Cell(g, Head(seq)) \in cells THEN <<Head(seq)>> ELSE <<>>)
         \o SelectPos(Tail(seq), g, cells)

Range(seq) == {seq[i] : i \in 1..Len(seq)}

\* parse_map: gold_locations, in order of discovery
gold_locations(g) == SelectPos(RowMajor(g), g, {"G"})

\* parse_map: bridge
bridge(g) == SelectPos(RowMajor(g), g, {"B"})

\* parse_map: start_pos is the last 'S' found, missing when there is none
start_pos(g) ==
  LET s == SelectPos(RowMajor(g), g, {"S"})
  IN  IF s = <<>> THEN Missing ELSE s[Len(s)]

is_position_walkable(pos, g) == InGrid(pos, g) /\ Cell(g, pos) # "X"

\* the cell characters the model's maps are made of
CellKinds == {"S", ".", "G", "B", "X"}

\* walkable if not a wall
get_walkable_positions(g) == SelectPos(RowMajor(g), g, CellKinds \ {"X"})

left_turn(a) ==
  CASE a = "NORTH" -> "WEST"
    [] a = "SOUTH" -> "EAST"
    [] a = "EAST"  -> "NORTH"
    [] a = "WEST"  -> "SOUTH"
    [] OTHER       -> None

right_turn(a) ==
  CASE a = "NORTH" -> "EAST"
    [] a = "SOUTH" -> "WEST"
    [] a = "EAST"  -> "SOUTH"
    [] a = "WEST"  -> "NORTH"
    [] OTHER       -> None

directions(a) ==
  CASE a = "NORTH" -> <<0, -1>>
    [] a = "SOUTH" -> <<0, 1>>
    [] a = "EAST"  -> <<1, 0>>
    [] a = "WEST"  -> <<-1, 0>>

Moved(pos, d) == <<pos[1] + d[1], pos[2] + d[2]>>

(***************************************************************************)
(* Dictionaries                                                            *)
(***************************************************************************)
EmptyDict == [k \in {} |-> 0]

DictGet(d, k, default) == IF k \in DOMAIN d THEN d[k] ELSE default

DictPut(d, k, v) == [x \in (DOMAIN d) \cup {k} |-> IF x = k THEN v ELSE d[x]]

(***************************************************************************)
(* Reward model                                                            *)
(***************************************************************************)
\* get_reward without the penalty for hitting a wall
get_reward_NoWallPenalty(pos, a, npos, collected, golds, start) ==
  -(One \div 100)
    + (IF npos \in Range(golds) /\ npos \notin collected THEN One ELSE 0)
    + (IF a = "EXIT" /\ npos = start THEN Cardinality(collected) * One ELSE 0)

\* get_reward without the reward for exiting the cave
get_reward_NoExitReward(pos, a, npos, collected, golds, start) ==
  -(One \div 100)
    + (IF npos = pos THEN -(One \div 10) ELSE 0)
    + (IF npos \in Range(golds) /\ npos \notin collected THEN One ELSE 0)

get_reward(pos, a, npos, collected, golds, start) ==
  LET step     == -(One \div 100)
      wall     == IF npos = pos THEN -(One \div 10) ELSE 0
      gold     == IF npos \in Range(golds) /\ npos \notin collected
                  THEN One ELSE 0
      exit     == IF a = "EXIT" /\ npos = start
                  THEN Cardinality(collected) * One ELSE 0
  IN  step + wall + gold + exit

(***************************************************************************)
(* Transition model                                                        *)
(***************************************************************************)
\* Candidate that overwrites the probability of staying put
Candidate_Overwrite(d, pos, dir, p, g) ==
  LET new_pos == Moved(pos, dir)
  IN  IF is_position_walkable(new_pos, g)
      THEN DictPut(d, new_pos, p)
      ELSE DictPut(d, pos, p)

\* one candidate direction of get_possible_next_positions: the target cell
\* gets probability p (overwriting), a blocked move adds p to staying put
Candidate(d, pos, dir, p, g) ==
  LET new_pos == Moved(pos, dir)
  IN  IF is_position_walkable(new_pos, g)
      THEN DictPut(d, new_pos, p)
      ELSE DictPut(d, pos, DictGet(d, pos, 0) + p)

\* The result is a dictionary; for EXIT the source returns a set, modelled
\* as a dictionary whose keys are the members (the values are never read).
get_possible_next_positions(pos, a, g) ==
  IF a = "EXIT"
  THEN IF Cell(g, pos) = "S" THEN DictPut(EmptyDict, pos, 0) ELSE EmptyDict
  ELSE LET d1 == Candidate(EmptyDict, pos, directions(a), 8, g)
           d2 == IF left_turn(a) # None
                 THEN Candidate(d1, pos, directions(left_turn(a)), 1, g)
                 ELSE d1
           d3 == IF right_turn(a) # None
                 THEN Candidate(d2, pos, directions(right_turn(a)), 1, g)
                 ELSE d2
       IN  d3

get_transition_prob(pos, a, npos, g) ==
  IF a = "EXIT"
  THEN IF Cell(g, pos) = "S" /\ npos = pos THEN 10 ELSE 0
  ELSE DictGet(get_possible_next_positions(pos, a, g), npos, 0)

\* lines 208-210: the gold set of the successor state
next_gold_collected(npos, collected, golds) ==
  IF npos \in Range(golds) /\ npos \notin collected
  THEN collected \cup {npos}
  ELSE collected

RECURSIVE SumOver(_, _)
SumOver(S, f) ==
  IF S = {} THEN 0
  ELSE LET x == CHOOSE y \in S : TRUE
       IN  f[x] + SumOver(S \ {x}, f)

\* total probability of the distribution the two functions build together
Mass(pos, a, g) ==
  LET keys == DOMAIN get_possible_next_positions(pos, a, g)
  IN  SumOver(keys, [np \in keys |-> get_transition_prob(pos, a, np, g)])


(***************************************************************************)
(* State space                                                             *)
(***************************************************************************)
\* itertools.combinations(s, r): the r-subsets in lexicographic index order
RECURSIVE combinations(_, _)
combinations(s, r) ==
  IF r = 0 THEN << {} >>
  ELSE IF Len(s) < r THEN <<>>
  ELSE LET with == combinations(Tail(s), r - 1)
       IN  [i \in 1..Len(with) |-> {Head(s)} \cup with[i]]
             \o combinations(Tail(s), r)

RECURSIVE PowersetFrom(_, _)
PowersetFrom(s, r) ==
  IF r > Len(s) THEN <<>> ELSE combinations(s, r) \o PowersetFrom(s, r + 1)

\* powerset: subsets by increasing size
powerset(s) == PowersetFrom(s, 0)

\* line 192: position-major, subsets in powerset order
States(g) ==
  LET wp == get_walkable_positions(g)
      ps == powerset(gold_locations(g))
  IN  [i \in 1..(Len(wp) * Len(ps)) |->
         <<wp[((i - 1) \div Len(ps)) + 1], ps[((i - 1) % Len(ps)) + 1]>>]

(***************************************************************************)
(* Fixed-point arithmetic                                                  *)
(***************************************************************************)
\* floor(p * x / 10) without leaving 32 bits
MulProb(p, x) == (x \div 10) * p + ((x % 10) * p) \div 10

\* floor(GAMMA * v / 100) without leaving 32 bits
MulGamma(v) == (v \div 100) * GAMMA + ((v % 100) * GAMMA) \div 100

Abs(x) == IF x < 0 THEN -x ELSE x

Max(a, b) == IF a >= b THEN a ELSE b

(***************************************************************************)
(* Policy iteration                                                        *)
(***************************************************************************)
\* index of state s in the state list, 0 when it is not a state
StateIndex(sts, s) ==
  IF \E i \in 1..Len(sts) : sts[i] = s
  THEN CHOOSE i \in 1..Len(sts) : sts[i] = s
  ELSE 0

RECURSIVE SetToSeq(_)
SetToSeq(S) ==
  IF S = {} THEN <<>>
  ELSE LET x == CHOOSE y \in S : TRUE IN <<x>> \o SetToSeq(S \ {x})

\* lines 207-212 and 227-232: what the loop over next_position feeds into
\* the sum for state s and action a, one <<probability, reward, index of
\* the successor state>> per possible next position
Outcomes(s, a, g, sts) ==
  LET golds == gold_locations(g)
      moves == get_possible_next_positions(s[1], a, g)
  IN  SetToSeq({<<get_transition_prob(s[1], a, np, g),
                  get_reward(s[1], a, np, s[2], golds, start_pos(g)),
                  StateIndex(sts, <<np, next_gold_collected(np, s[2], golds)>>)>> :
                np \in DOMAIN moves})

\* the outcomes of every state and action of a map, tabulated once:
\* OutcomeTable(g)[i][j] for the i-th state and the j-th action
OutcomeTable(g) ==
  LET sts == States(g)
  IN  [i \in 1..Len(sts) |->
        [j \in 1..Len(Actions) |-> Outcomes(sts[i], Actions[j], g, sts)]]

RECURSIVE SumTerms(_, _, _)
SumTerms(os, k, Vf) ==
  IF k > Len(os) THEN 0
  ELSE MulProb(os[k][1], os[k][2] + MulGamma(Vf[os[k][3]]))
         + SumTerms(os, k + 1, Vf)

\* lines 206-212 and 226-232: expected value of the j-th action in the i-th
\* state under the values Vf
Backup(i, j, Vf, T) == SumTerms(T[i][j], 1, Vf)

ActionIndex(a) == CHOOSE j \in 1..Len(Actions) : Actions[j] = a

\* lines 201-214: one in-place sweep over the states from index i on;
\* acc = [V, delta]; pol and the values are indexed like the state list
RECURSIVE Sweep(_, _, _, _)
Sweep(acc, i, pol, T) ==
  IF i > Len(T) THEN acc
  ELSE LET total == Backup(i, ActionIndex(pol[i]), acc.V, T)
       IN  Sweep([V     |-> [acc.V EXCEPT ![i] = total],
                  delta |-> Max(acc.delta, Abs(acc.V[i] - total))],
                 i + 1, pol, T)

\* EvaluationStep with delta = 0 hoisted out of the loop: delta keeps the
\* maximum over all sweeps, which is at least EPSILON from the second on
EvaluationStep_StaleDelta(st, pol, T) ==
  IF st.converged THEN st
  ELSE LET acc == Sweep([V |-> st.V, delta |-> 0], 1, pol, T)
       IN  [V |-> acc.V, sweeps |-> st.sweeps + 1,
            converged |-> st.sweeps = 0 /\ acc.delta < EPSILON]

\* one pass of the loop of lines 200-216 on st = [V, sweeps, converged];
\* a loop that has stopped stays as it is
EvaluationStep(st, pol, T) ==
  IF st.converged THEN st
  ELSE LET acc == Sweep([V |-> st.V, delta |-> 0], 1, pol, T)
       IN  [V |-> acc.V, sweeps |-> st.sweeps + 1,
            converged |-> acc.delta < EPSILON]

\* n passes of the loop, split in halves so that the depth of the
\* evaluation is logarithmic in n
RECURSIVE EvaluationSteps(_, _, _, _)
EvaluationSteps(st, n, pol, T) ==
  IF n = 0 THEN st
  ELSE IF n = 1 THEN EvaluationStep(st, pol, T)
  ELSE LET half == EvaluationSteps(st, n \div 2, pol, T)
       IN  IF half.converged THEN half
           ELSE EvaluationSteps(half, n - (n \div 2), pol, T)

\* lines 200-216: sweeps until delta < EPSILON; the loop is cut off
\* (converged = FALSE) after MaxSweeps sweeps
PolicyEvaluation(Vf, pol, T) ==
  EvaluationSteps([V |-> Vf, sweeps |-> 0, converged |-> FALSE],
                  MaxSweeps, pol, T)

\* lines 223-235: the first action, in the order of Actions, with the
\* strictly greatest expected value; best = [action, value], None = -inf
RECURSIVE BestAction(_, _, _, _, _)
BestAction(best, j, i, Vf, T) ==
  IF j > Len(Actions) THEN best.action
  ELSE LET total == Backup(i, j, Vf, T)
       IN  IF best.action = None \/ total > best.value
           THEN BestAction([action |-> Actions[j], value |-> total], j + 1, i, Vf, T)
           ELSE BestAction(best, j + 1, i, Vf, T)

\* lines 219-238: the improved policy
PolicyImprovement(Vf, T) ==
  [i \in 1..Len(T) |-> BestAction([action |-> None, value |-> 0], 1, i, Vf, T)]

\* line 195: the initial policies the model draws from
InitPolicies(g, free) ==
  LET n == Len(States(g))
      k == IF n < free THEN n ELSE free
  IN  {[i \in 1..n |-> IF i <= k THEN f[i] ELSE a] :
        f \in [1..k -> ActionSet], a \in ActionSet}

\* line 196
InitV(g) == [i \in 1..Len(States(g)) |-> 0]

\* policy[state], None when the state is not a key
PolicyOf(pol, g, s) ==
  IF pol = Missing \/ StateIndex(States(g), s) = 0
  THEN None
  ELSE pol[StateIndex(States(g), s)]

\* lines 198-243 as a function of the initial policy: the returned policy,
\* missing when an evaluation is cut off or MaxIterations rounds do not
\* reach a stable policy
RECURSIVE PolicyIterationFrom(_, _, _, _)
PolicyIterationFrom(Vf, pol, n, T) ==
  LET r        == PolicyEvaluation(Vf, pol, T)
      improved == PolicyImprovement(r.V, T)
  IN  IF ~r.converged \/ n >= MaxIterations THEN Missing
      ELSE IF improved = pol THEN improved
      ELSE PolicyIterationFrom(r.V, improved, n + 1, T)

policy_iteration(g, init) == PolicyIterationFrom(InitV(g), init, 0, OutcomeTable(g))

(***************************************************************************)
(* Hazard sub-game                                                         *)
(***************************************************************************)
RECURSIVE SeqSum(_)
SeqSum(q) == IF q = <<>> THEN 0 ELSE Head(q) + SeqSum(Tail(q))

\* dice_rolls.sort(reverse=True)
RECURSIVE SortDescending(_)
SortDescending(q) ==
  IF q = <<>> THEN <<>>
  ELSE LET m == CHOOSE i \in 1..Len(q) : \A j \in 1..Len(q) : q[i] >= q[j]
       IN  <<q[m]>> \o SortDescending([j \in 1..(Len(q) - 1) |->
                                          IF j < m THEN q[j] ELSE q[j + 1]])

\* the results cross_bridge can return: one per outcome of the dice
cross_bridge(agility) ==
  {LET sorted == SortDescending(rolls)
       top    == SubSeq(sorted, 1, IF Len(sorted) < 3 THEN Len(sorted) ELSE 3)
   IN  SeqSum(top) >= 12 : rolls \in [1..agility -> 1..6]}

(***************************************************************************)
(* Maps                                                                    *)
(***************************************************************************)
\* the 1x1 room "S"
Room1x1 == << <<"S">> >>
\* the corridor "S.G"
Corridor == << <<"S", ".", "G">> >>
\* "S.": no items
NoItems == << <<"S", ".">> >>
\* "SG"
StartGold == << <<"S", "G">> >>
\* ".SXG": the item is walled off
WalledGold == << <<".", "S", "X", "G">> >>
\* "GSG": an item on either side of the start
TwoGold == << <<"G", "S", "G">> >>
\* a column: floor, bridge, start
BridgeColumn == << <<".">>, <<"B">>, <<"S">> >>

\* every 2x2 map of start, floor, wall and gold cells with exactly one start
Grids2x2 ==
  {g \in [1..2 -> [1..2 -> {"S", ".", "X", "G"}]] :
     Cardinality({p \in (1..2) \X (1..2) : g[p[1]][p[2]] = "S"}) = 1}

\* the 3x3 maps with the start in the middle and floor or wall on its sides
Cross3x3 ==
  {<< <<".", n, ".">>, <<w, "S", e>>, <<".", s, ".">> >> :
     n \in {".", "X"}, w \in {".", "X"}, e \in {".", "X"}, s \in {".", "X"}}

MDPMaps == Grids2x2 \cup Cross3x3 \cup {Room1x1, Corridor}

PIMaps == {Room1x1, Corridor, NoItems, StartGold, WalledGold}

AgentMaps == {TwoGold, WalledGold, BridgeColumn}

(***************************************************************************)
(* Variable groups                                                         *)
(***************************************************************************)
mdpVars == <<position, action, next_position, possible_moves, mass, reward>>
piVars == <<policy, V, sweeps, iterations>>
agentVars == <<history, free_skill_points, agility_skill, attempt,
               current_position, result>>

NoQuery ==
  /\ position = Missing /\ action = None /\ next_position = Missing
  /\ possible_moves = EmptyDict /\ mass = Unset /\ reward = 0

NoRequest ==
  /\ history = <<>> /\ free_skill_points = 0 /\ agility_skill = Unset
  /\ attempt = Unset /\ current_position = Missing /\ result = None

(***************************************************************************)
(* The transition and reward model, queried on its own                     *)
(***************************************************************************)
InitMDP ==
  /\ grid \in MDPMaps
  /\ pc = "mdp"
  /\ NoQuery /\ NoRequest
  /\ gold_collected = {}
  /\ policy = Missing /\ V = Missing /\ sweeps = 0 /\ iterations = 0

\* the distribution of one (position, action): lines 122-178
QueryTransitions ==
  /\ pc = "mdp"
  /\ \E pos \in Range(get_walkable_positions(grid)), a \in ActionSet :
       /\ position' = pos
       /\ action' = a
       /\ possible_moves' = get_possible_next_positions(pos, a, grid)
       /\ mass' = Mass(pos, a, grid)
  /\ pc' = "transitions"
  /\ UNCHANGED <<grid, next_position, reward, gold_collected, piVars, agentVars>>

\* the reward of one transition: lines 103-118
QueryReward ==
  /\ pc = "mdp"
  /\ \E pos \in Range(get_walkable_positions(grid)), a \in ActionSet,
        npos \in Range(get_walkable_positions(grid)),
        collected \in SUBSET Range(gold_locations(grid)) :
       /\ position' = pos
       /\ action' = a
       /\ next_position' = npos
       /\ gold_collected' = collected
       /\ reward' = get_reward(pos, a, npos, collected,
                               gold_locations(grid), start_pos(grid))
  /\ pc' = "reward"
  /\ UNCHANGED <<grid, possible_moves, mass, piVars, agentVars>>

NextMDP == QueryTransitions \/ QueryReward

SpecMDP == InitMDP /\ [][NextMDP]_vars

(***************************************************************************)
(* policy_iteration as a process: evaluation and improvement phases        *)
(***************************************************************************)
InitPI ==
  /\ grid \in PIMaps
  /\ pc = "evaluate"
  /\ policy \in InitPolicies(grid, MaxFreeStates)
  /\ V = InitV(grid)
  /\ sweeps = 0
  /\ iterations = 0
  /\ NoQuery /\ NoRequest
  /\ gold_collected = {}

\* lines 200-216: one evaluation phase (T = T makes the table a value that
\* is computed once)
Evaluation ==
  /\ pc = "evaluate"
  /\ LET T == OutcomeTable(grid)
         r == PolicyEvaluation(V, policy, T)
     IN  /\ T = T
         /\ V' = r.V
         /\ sweeps' = r.sweeps
         /\ pc' = IF r.converged THEN "improve" ELSE "diverged"
  /\ UNCHANGED <<grid, policy, iterations, gold_collected, mdpVars, agentVars>>

\* lines 219-241: one improvement pass; a stable policy is returned
Improvement ==
  /\ pc = "improve"
  /\ iterations < MaxIterations
  /\ LET T == OutcomeTable(grid)
     IN  T = T /\ policy' = PolicyImprovement(V, T)
  /\ iterations' = iterations + 1
  /\ pc' = IF policy' = policy THEN "returned" ELSE "evaluate"
  /\ UNCHANGED <<grid, V, sweeps, gold_collected, mdpVars, agentVars>>

NextPI == Evaluation \/ Improvement

SpecPI == InitPI /\ [][NextPI]_vars

(***************************************************************************)
(* agent_function                                                          *)
(***************************************************************************)
\* an event's outcome: a position and a collected-gold-at position, each
\* of which may be missing
Events(g) ==
  LET cells == Range(get_walkable_positions(g)) \cup {Missing}
  IN  [position : cells, gold : cells]

Histories(g) == UNION {[1..n -> Events(g)] : n \in 0..MaxHistory}

SkillAllocation(points) == [agility |-> points, fighting |-> 0]

InitAgent ==
  /\ grid \in AgentMaps
  /\ pc = "start"
  /\ history \in Histories(grid)
  /\ free_skill_points \in {0, 1}
  /\ agility_skill = Unset /\ attempt = Unset
  /\ current_position = Missing /\ result = None
  /\ gold_collected = {}
  /\ policy = Missing /\ V = Missing /\ sweeps = 0 /\ iterations = 0
  /\ NoQuery

\* lines 283-285
AllocateSkills ==
  /\ pc = "start"
  /\ free_skill_points > 0
  /\ result' = SkillAllocation(free_skill_points)
  /\ pc' = "done"
  /\ UNCHANGED <<grid, gold_collected, mdpVars, piVars, history,
                 free_skill_points, agility_skill, attempt, current_position>>

\* lines 288-289
BeginReplay ==
  /\ pc = "start"
  /\ free_skill_points <= 0
  /\ current_position' = start_pos(grid)
  /\ gold_collected' = {}
  /\ pc' = "replay"
  /\ UNCHANGED <<grid, mdpVars, piVars, history, free_skill_points,
                 agility_skill, attempt, result>>
\* AddGold that keeps only the latest gold
AddGold_Replace(collected, gold_pos) == {gold_pos}

\* lines 298-300: gold_collected.add(gold_pos)
AddGold(collected, gold_pos) == collected \cup {gold_pos}

\* lines 292-300: one event of the history
ReplayEvent ==
  /\ pc = "replay"
  /\ history # <<>>
  /\ LET outcome == Head(history)
     IN  /\ current_position' = IF outcome.position # Missing
                                THEN outcome.position ELSE current_position
         /\ gold_collected' = IF outcome.gold # Missing
                              THEN AddGold(gold_collected, outcome.gold)
                              ELSE gold_collected
  /\ history' = Tail(history)
  /\ UNCHANGED <<grid, pc, mdpVars, piVars, free_skill_points, agility_skill,
                 attempt, result>>

\* lines 308-310: on the stairs with gold
CheckStairs ==
  /\ pc = "replay"
  /\ history = <<>>
  /\ IF Cell(grid, current_position) = "S" /\ gold_collected # {}
     THEN result' = "EXIT" /\ pc' = "done"
     ELSE result' = result /\ pc' = "bridge"
  /\ UNCHANGED <<grid, gold_collected, mdpVars, piVars, history,
                 free_skill_points, agility_skill, attempt, current_position>>

\* lines 313-315: the request's agility is read when the agent is on a bridge
EnterBridge ==
  /\ pc = "bridge"
  /\ IF Cell(grid, current_position) = "B"
     THEN /\ agility_skill' \in 0..MaxAgility
          /\ attempt' = 0
          /\ pc' = "crossing"
     ELSE /\ UNCHANGED <<agility_skill, attempt>>
          /\ pc' = "policy"
  /\ UNCHANGED <<grid, gold_collected, mdpVars, piVars, history,
                 free_skill_points, current_position, result>>

\* lines 315-320: one attempt; a success leaves the loop
BridgeAttempt ==
  /\ pc = "crossing"
  /\ attempt < agility_skill
  /\ \E crossed \in cross_bridge(agility_skill) :
       IF crossed
       THEN agility_skill' = Unset /\ attempt' = Unset /\ pc' = "policy"
       ELSE agility_skill' = agility_skill /\ attempt' = attempt + 1 /\ pc' = pc
  /\ UNCHANGED <<grid, gold_collected, mdpVars, piVars, history,
                 free_skill_points, current_position, result>>

\* lines 321-323: the loop ran out without a success
BridgeFail ==
  /\ pc = "crossing"
  /\ attempt >= agility_skill
  /\ result' = "EXIT"
  /\ pc' = "done"
  /\ UNCHANGED <<grid, gold_collected, mdpVars, piVars, history,
                 free_skill_points, agility_skill, attempt, current_position>>

\* lines 326, 195-196: policy_iteration is entered
BeginPolicyIteration ==
  /\ pc = "policy"
  /\ policy' \in InitPolicies(grid, MaxFreeAgent)
  /\ V' = InitV(grid)
  /\ sweeps' = 0
  /\ iterations' = 0
  /\ pc' = "evaluate"
  /\ UNCHANGED <<grid, gold_collected, mdpVars, agentVars>>
\* ChosenAction without the replacement of EXIT (lines 333-337)
ChosenAction_NoOverride(pol, g, pos, collected) ==
  LET looked == PolicyOf(pol, g, <<pos, collected>>)
  IN  IF looked = None THEN "NORTH" ELSE looked

\* lines 329-337: the action for the replayed state under policy pol
ChosenAction(pol, g, pos, collected) ==
  LET looked == PolicyOf(pol, g, <<pos, collected>>)
      a      == IF looked = None THEN "NORTH" ELSE looked
  IN  IF a = "EXIT" /\ collected = {}
         /\ \E i \in 1..Len(gold_locations(g)) :
              gold_locations(g)[i] \notin collected
      THEN "NORTH"
      ELSE a

\* lines 329-339
Lookup ==
  /\ pc = "returned"
  /\ result' = ChosenAction(policy, grid, current_position, gold_collected)
  /\ pc' = "done"
  /\ UNCHANGED <<grid, gold_collected, mdpVars, piVars, history,
                 free_skill_points, agility_skill, attempt, current_position>>

NextAgent ==
  \/ AllocateSkills
  \/ BeginReplay
  \/ ReplayEvent
  \/ CheckStairs
  \/ EnterBridge
  \/ BridgeAttempt
  \/ BridgeFail
  \/ BeginPolicyIteration
  \/ Evaluation
  \/ Improvement
  \/ Lookup

SpecAgent == InitAgent /\ [][NextAgent]_vars

(***************************************************************************)
(* Properties of the transition and reward model (SpecMDP)                 *)
(***************************************************************************)
Directional == {"NORTH", "SOUTH", "EAST", "WEST"}

\* C1: the distribution of every walkable position and action has total
\* probability 1, except that it is empty (mass 0) exactly for EXIT away
\* from the start cell; a directional action never has an empty one.
C1_DistributionSumsToOne ==
  pc = "transitions" =>
    IF action = "EXIT" /\ Cell(grid, position) # "S"
    THEN mass = 0 /\ DOMAIN possible_moves = {}
    ELSE mass = 10 /\ DOMAIN possible_moves # {}

\* a directional action with two blocked candidates whose mass went to
\* staying put, and one that moves
C1_Witness ==
  /\ pc = "transitions"
  /\ action \in Directional
  /\ position \in DOMAIN possible_moves
  /\ possible_moves[position] = 2
  /\ Cardinality(DOMAIN possible_moves) = 2
  /\ mass = 10

\* the item bonus is the same for next position np and for staying at pos
SameItemBonus(pos, np, collected, g) ==
  (np \in Range(gold_locations(g)) /\ np \notin collected)
    <=> (pos \in Range(gold_locations(g)) /\ pos \notin collected)

\* C8: get_reward is the sum of the step penalty, the collision penalty,
\* the item bonus and, for EXIT at the start, a bonus per carried item plus
\* an extra full-clearance bonus when every item of the map is collected.
C8_RewardWithFullClearance ==
  pc = "reward" =>
    LET golds == Range(gold_locations(grid))
        base  == -(One \div 100)
                   + (IF next_position = position THEN -(One \div 10) ELSE 0)
                   + (IF next_position \in golds \ gold_collected THEN One ELSE 0)
                   + (IF action = "EXIT" /\ next_position = start_pos(grid)
                      THEN Cardinality(gold_collected) * One ELSE 0)
    IN  IF action = "EXIT" /\ next_position = start_pos(grid)
           /\ golds \subseteq gold_collected
        THEN reward > base
        ELSE reward = base

\* C9: for a directional action, the reward of the blocked move is strictly
\* less than the reward of an unblocked move with the same item bonus.
C9_BlockedMoveIsWorse ==
  (/\ pc = "reward"
   /\ action \in Directional
   /\ next_position # position
   /\ SameItemBonus(position, next_position, gold_collected, grid))
  => get_reward(position, action, position, gold_collected,
                gold_locations(grid), start_pos(grid)) < reward

\* an unblocked move between two cells that both hold uncollected gold
C9_Witness ==
  /\ pc = "reward"
  /\ action \in Directional
  /\ next_position # position
  /\ SameItemBonus(position, next_position, gold_collected, grid)
  /\ next_position \in Range(gold_locations(grid)) \ gold_collected
  /\ reward = One - (One \div 100)

C4_CorridorPolicy ==
  (pc = "returned" /\ grid = Corridor) =>
    /\ PolicyOf(policy, grid, <<<<0, 0>>, {}>>) = "EAST"
    /\ PolicyOf(policy, grid, <<<<1, 0>>, {}>>) = "EAST"
    /\ PolicyOf(policy, grid, <<<<2, 0>>, {<<2, 0>>}>>) = "WEST"
    /\ PolicyOf(policy, grid, <<<<1, 0>>, {<<2, 0>>}>>) = "WEST"
    /\ PolicyOf(policy, grid, <<<<0, 0>>, {<<2, 0>>}>>) = "EXIT"

\* a policy returned for the corridor after the initial one was changed
C4_Witness == pc = "returned" /\ grid = Corridor /\ iterations >= 2

\* C5: on the 1x1 map the returned policy takes EXIT at the start.
C5_SingleRoomExits ==
  (pc = "returned" /\ grid = Room1x1) =>
    PolicyOf(policy, grid, <<<<0, 0>>, {}>>) = "EXIT"

\* C10: away from the start the returned policy never takes EXIT.
C10_ExitOnlyAtStart ==
  pc = "returned" =>
    \A i \in 1..Len(States(grid)) :
      States(grid)[i][1] # start_pos(grid) => policy[i] # "EXIT"

(***************************************************************************)
(* Properties of agent_function (SpecAgent)                                *)
(***************************************************************************)
\* the request was answered with an action, off the bridge
AnsweredOffBridge ==
  /\ pc = "done"
  /\ free_skill_points = 0
  /\ Cell(grid, current_position) # "B"

\* Policy[state], or the default action when the state is not a key
PolicyOrDefault(pol, g, s) ==
  IF PolicyOf(pol, g, s) = None THEN "NORTH" ELSE PolicyOf(pol, g, s)

\* the policies policy_iteration returns for a map
ReturnedPolicies(g) ==
  {policy_iteration(g, init) : init \in InitPolicies(g, MaxFreeAgent)} \ {Missing}

Target(pos, a, g) ==
  IF a = "EXIT" THEN pos
  ELSE IF is_position_walkable(Moved(pos, directions(a)), g)
       THEN Moved(pos, directions(a))
       ELSE pos

\* the attempts to cross the bridge ran out
BridgeFailed == pc = "done" /\ attempt # Unset /\ attempt >= agility_skill

\* C6: after a failed hazard sub-game agent_function returns the first
\* action, in the order of Actions, whose target is not a hazard cell, and
\* one of the five actions in any case.
C6_FallbackAction ==
  BridgeFailed =>
    LET ok == {j \in 1..Len(Actions) :
                 Cell(grid, Target(current_position, Actions[j], grid)) # "B"}
    IN  IF ok # {}
        THEN result = Actions[CHOOSE j \in ok : \A k \in ok : j <= k]
        ELSE result \in ActionSet

\* C7: the item set never loses members: replaying an event keeps every
\* collected item, and in policy_iteration the item set of a successor
\* state is that of its origin plus exactly the next position when it is
\* an uncollected item.
C7_ItemSetMonotone ==
  /\ [][pc = "replay" => gold_collected \subseteq gold_collected']_vars
  /\ [](pc \in {"evaluate", "improve"} =>
        LET sts   == States(grid)
            golds == Range(gold_locations(grid))
            T     == OutcomeTable(grid)
        IN  \A i \in 1..Len(sts), j \in 1..Len(Actions) :
              \A n \in 1..Len(T[i][j]) :
                LET k == T[i][j][n][3]
                IN  /\ k \in 1..Len(sts)
                    /\ sts[i][2] \subseteq sts[k][2]
                    /\ sts[k][2] \ sts[i][2] =
                         IF sts[k][1] \in golds \ sts[i][2]
                         THEN {sts[k][1]} ELSE {})

\* a replay that has collected two items
C7_Witness ==
  pc = "replay" /\ history = <<>> /\ Cardinality(gold_collected) = 2

====
